---- MODULE Spec2Model ----
(***************************************************************************)
(* Forward transform pipeline of fastMRI-kspace (data/input_transforms.py). *)
(* One transform instance is constructed and then called on slices.  A     *)
(* tensor is modelled by the signal it holds: the domain it is in, which    *)
(* mask / weighting / crop / flips were applied, the scale factors it was   *)
(* divided by, its shape and whether it shares storage with the caller's    *)
(* k-space tensor.                                                          *)
(***************************************************************************)
EXTENDS Integers, Sequences, FiniteSets, TLC

\* ---------------------------------------------------------------- bounds
MaxWidth == 3
MaxDivisor == 4

\* the height of every slice (640 in the data set)
Height == 2

\* the worker threads that call one shared transform instance at once
NumThreads == 2
Threads == 1..NumThreads

\* the checkpoint manager: the largest max_to_keep, the number of checkpoints written
\* and the largest metric of the model
MaxToKeep == 2
MaxSaves == 4
MaxMetric == 3

\* resolutions the crop is configured with in the model
Resolutions == {2}
\* coil counts of the slices (single-coil and the 15-coil data set)
CoilCounts == {1, 15}
\* ranks of the tensor handed to __call__
Ranks == 2..6
\* batch sizes of a rank-5 tensor
BatchSizes == {1, 2}
Chars == {"a", "b"}
FileNames == {<<"a", "b">>, <<"b", "a">>}
SliceNums == {0, 1}
\* the attrs mappings of a slice: the attributes of the HDF5 file, without and with an
\* attribute named like an entry the transform writes into extra_params
AttrsMappings == {[acquisition |-> "CORPD_FBK"],
                  [acquisition |-> "CORPD_FBK", masks |-> [attr |-> "masks"]]}
Challenges == {"singlecoil", "multicoil", "brain"}
Classes == {"PreProcessWK", "PreProcessWSK", "PreProcessCMG", "PreProcessCMGIMG",
            "PreProcessIMG", "PreProcessWSemiKCC"}

\* Python's None
None == [kind |-> "None"]
\* no exception was raised
NoExc == "None"

VARIABLES
    self,           \* the transform instance: its class and the attributes __init__ stored
    pc,             \* where the instance / the current __call__ is
    exc,            \* the exception the constructor or the call raised
    args,           \* the arguments of the current __call__
    caller_kspace,  \* what the tensor the caller passed as kspace_target holds now
    kspace_target,  \* the local kspace_target of the call
    seed,           \* the local seed
    masked_kspace,  \* the local masked_kspace as apply_info_mask returned it
    mask,           \* the local mask
    info,           \* the local info
    mask_calls,     \* the (file_name, seed) pairs the mask function was called with
    locals,         \* the other locals of the call when it returns
    ret,            \* the (inputs, targets, extra_params) tuple the call returned
    stages,         \* the stages the current __call__ has executed, in order
    threads,        \* the calls that worker threads run at once on the shared instance
    manager,        \* the CheckpointManager: the attributes __init__ and save assign
    disk,           \* the checkpoint files that exist in the checkpoint directory
    written,        \* the checkpoint files this manager has written so far
    save_ret,       \* the (save_path, is_best) pair the last save returned
    save_log,       \* the arguments of the last save, every metric passed to save so far
                    \* and the metric the last written checkpoint was saved with
    trainer,        \* the model trainer: the attributes __init__ stored
    tpc,            \* where train_model is
    epoch,          \* the epoch of the loop of train_model
    step,           \* the step of the loop of the current epoch
    net,            \* the model and the optimizer: parameters, gradients, modes
    writer,         \* the summary writer: the image steps written and whether it is closed
    events,         \* what train_model has done so far, in order
    train_locals    \* the operations the last step performed on model and optimizer, the
                    \* model and the optimizer as they were when the current validation
                    \* epoch began, the loss of that epoch

\* the state of the transforms, of the checkpoint manager and of the trainer
TransformVars == <<self, pc, exc, args, caller_kspace, kspace_target, seed, masked_kspace,
                   mask, info, mask_calls, locals, ret, stages, threads>>
CkptVars == <<manager, disk, written, save_ret, save_log>>
TrainerVars == <<trainer, tpc, epoch, step, net, writer, events, train_locals>>

vars == <<TransformVars, CkptVars, TrainerVars>>

\* ---------------------------------------------------------------- scalars and tensors
\* Python's ord on the characters of the model
ord(c) == IF c = "a" THEN 97 ELSE 98

\* tuple(map(ord, file_name))
OrdTuple(file_name) == [i \in 1..Len(file_name) |-> ord(file_name[i])]

\* a tuple passed as the seed argument of the mask function
TupleSeed(t) == [kind |-> "tuple", val |-> t]

\* the tensor the data loader hands to the transform: k-space (both spatial axes in
\* the frequency domain), complex (trailing axis of size 2), nothing applied to it yet
RawKspace(rank, batch, coils, h, w) ==
    [hdom |-> 0, wdom |-> 0, layout |-> "complex", rank |-> rank, batch |-> batch,
     coils |-> coils, h |-> h, w |-> w, pad |-> <<0, 0>>,
     masked |-> FALSE, acs |-> <<>>, weighted |-> "none", scales |-> <<>>,
     cropped |-> FALSE, flip_lr |-> FALSE, flip_ud |-> FALSE, base |-> "caller"]

\* the root-sum-of-squares reference image of the slice (a real 2D image)
RawTarget ==
    [hdom |-> 1, wdom |-> 1, layout |-> "rss", scales |-> <<>>,
     flip_lr |-> FALSE, flip_ud |-> FALSE, base |-> "fresh"]

\* torch.std(t): the scalar is identified by the tensor it was computed over
Std(t) == [std_of |-> [t EXCEPT !.base = "fresh"]]

\* 1 / s
Recip(s) == [recip_of |-> s]

\* t * k for a scalar k that is a reciprocal 1 / s: the same as t / s; a new tensor
MulScalar(t, k) == [t EXCEPT !.scales = Append(@, k.recip_of)]

\* t *= k: as MulScalar, but written into the storage of t
IMulScalar(t, k) == [t EXCEPT !.scales = Append(@, k.recip_of)]

\* a division that is left out
IDivScalar_skip(t, s) == t

\* t /= s, written into the storage of t
IDivScalar(t, s) == [t EXCEPT !.scales = Append(@, s)]

\* what the caller's tensor holds after an in-place operation produced t
WriteThrough(c, t) == IF t.base = "caller" THEN [c EXCEPT !.scales = t.scales] ELSE c

\* Tensor.expand(1, 1, -1, -1, -1) on a rank-3 tensor: a 5-axis view of the same storage
Expand3(t) == [t EXCEPT !.rank = 5, !.batch = 1, !.coils = 1]

\* Tensor.expand(1, -1, -1, -1, -1) on a rank-4 tensor: a 5-axis view of the same storage
Expand4(t) == [t EXCEPT !.rank = 5, !.batch = 1]

\* inverse / forward Fourier transforms: a new tensor, same shape, the transformed axes
\* move one step towards the image domain (ifft) or back (fft)
ifft2(t) == [t EXCEPT !.hdom = @ + 1, !.wdom = @ + 1, !.base = "fresh"]
fft2(t) == [t EXCEPT !.hdom = @ - 1, !.wdom = @ - 1, !.base = "fresh"]
ifft1(t, direction) ==
    IF direction = "height" THEN [t EXCEPT !.hdom = @ + 1, !.base = "fresh"]
    ELSE [t EXCEPT !.wdom = @ + 1, !.base = "fresh"]
fft1(t, direction) ==
    IF direction = "height" THEN [t EXCEPT !.hdom = @ - 1, !.base = "fresh"]
    ELSE [t EXCEPT !.wdom = @ - 1, !.base = "fresh"]

\* sqrt(real^2 + imag^2) over the trailing axis, which is dropped
complex_abs(t) == [t EXCEPT !.layout = "real", !.base = "fresh"]

\* [1, coils, h, w, 2] -> [1, 2 * coils, h, w]
kspace_to_nchw(t) == [t EXCEPT !.layout = "nchw", !.base = "fresh"]

\* F.pad(t, pad=[l, r], value=0): l zero columns before and r after the last axis
Pad(t, p) == [t EXCEPT !.w = @ + p[1] + p[2],
                       !.pad = <<@[1] + p[1], @[2] + p[2]>>,
                       !.base = "fresh"]

\* mask_func(shape, seed): the mask over the width axis and the info bundle with the
\* number of low-frequency columns the mask function chose
MaskFunc(w, sd, num_low) ==
    [mask |-> [w |-> w, seed |-> sd],
     info |-> [acceleration |-> 4, center_fraction |-> 8, num_low_frequency |-> num_low]]

\* apply_info_mask(data, mask_func, seed): a new tensor with the unsampled columns zeroed
ApplyInfoMask(data, m) == [data EXCEPT !.masked = TRUE, !.base = "fresh"]

\* weight_func(tensor): computed from the geometry of the tensor only
WeightFunc(t) == [weight_h |-> t.h, weight_w |-> t.w, hdom |-> t.hdom, wdom |-> t.wdom]

\* t *= weighting
IMulWeight(t, wt) ==
    [t EXCEPT !.weighted = IF wt.hdom = 0 /\ wt.wdom = 0 THEN "kspace" ELSE "semi_kspace"]

\* center_crop / complex_center_crop(t, shape=(res, res)): succeeds when the crop fits
CanCrop(t, res) == 0 < res /\ res <= t.h /\ res <= t.w

\* the centre res x res region of the two spatial axes (a view of t)
CenterCrop(t, res) == [t EXCEPT !.h = res, !.w = res, !.cropped = TRUE]

\* the spatial axis a negative dim of t addresses: a complex tensor ends in
\* (height, width, 2), a real image in (height, width)
AxisOf(t, d) ==
    IF t.layout = "complex"
    THEN (IF d = -3 THEN "height" ELSE IF d = -2 THEN "width" ELSE "other")
    ELSE (IF d = -2 THEN "height" ELSE IF d = -1 THEN "width" ELSE "other")

\* torch.flip(t, dims): a new tensor, reversed along every axis in dims
torch_flip(t, dims) ==
    [t EXCEPT !.flip_ud = (@ # (\E d \in dims : AxisOf(t, d) = "height")),
              !.flip_lr = (@ # (\E d \in dims : AxisOf(t, d) = "width")),
              !.base = "fresh"]

\* torch.cat([complex_image, img_inputs.unsqueeze(dim=-1)], dim=-1)
Concat(ci, img) ==
    [ci EXCEPT !.layout = "concat3",
               !.scales = IF ci.scales = img.scales THEN ci.scales ELSE <<"mixed">>,
               !.base = "fresh"]

\* an ACS block centred with the odd margin on the right
find_acs_mask_floor(kspace_recons, num_low_freqs) ==
    LET num_cols == kspace_recons.w
        pad == (num_cols - num_low_freqs) \div 2
    IN [i \in 1..num_cols |-> (pad < i) /\ (i <= pad + num_low_freqs)]

\* PreProcessWSemiKCC.find_acs_mask: ones on columns pad .. pad + num_low_freqs - 1
\* (0-based) of the num_cols columns, as a sequence over columns 1 .. num_cols
find_acs_mask(kspace_recons, num_low_freqs) ==
    LET num_cols == kspace_recons.w
        pad == (num_cols - num_low_freqs + 1) \div 2
    IN [i \in 1..num_cols |-> (pad < i) /\ (i <= pad + num_low_freqs)]

\* kspace_target * acs_mask: a new tensor
MulAcsMask(t, m) == [t EXCEPT !.acs = m, !.base = "fresh"]

\* dict.update
Update(d, e) ==
    [k \in (DOMAIN d) \cup (DOMAIN e) |-> IF k \in DOMAIN e THEN e[k] ELSE d[k]]

\* ---------------------------------------------------------------- construction
HasWeight(cls) == cls \in {"PreProcessWK", "PreProcessWSK", "PreProcessWSemiKCC"}
HasDivisor(cls) == cls \in {"PreProcessWK", "PreProcessWSK"}
HasAugment(cls) == cls \in {"PreProcessCMG", "PreProcessCMGIMG", "PreProcessIMG"}

\* the attributes __init__ of each class stores
NewInstance(cls, challenge, use_seed, divisor, augment_data, crop_center, resolution) ==
    IF HasDivisor(cls)
    THEN [cls |-> cls, mask_func |-> "mask_func", weight_func |-> "weight_func",
          challenge |-> challenge, device |-> "device", use_seed |-> use_seed,
          divisor |-> divisor]
    ELSE IF cls = "PreProcessWSemiKCC"
    THEN [cls |-> cls, mask_func |-> "mask_func", weight_func |-> "weight_func",
          challenge |-> challenge, device |-> "device", resolution |-> resolution,
          use_seed |-> use_seed]
    ELSE [cls |-> cls, mask_func |-> "mask_func", challenge |-> challenge,
          device |-> "device", augment_data |-> augment_data, use_seed |-> use_seed,
          crop_center |-> crop_center, resolution |-> resolution]

\* a worker that is between two calls
IdleThread == [pc |-> "idle"]

Init ==
    /\ self = None
    /\ pc = "new"
    /\ exc = NoExc
    /\ args = None
    /\ caller_kspace = None
    /\ kspace_target = None
    /\ seed = None
    /\ masked_kspace = None
    /\ mask = None
    /\ info = None
    /\ mask_calls = {}
    /\ locals = None
    /\ ret = None
    /\ stages = <<>>
    /\ threads = [t \in Threads |-> IdleThread]
    /\ manager = None
    /\ disk = {}
    /\ written = {}
    /\ save_ret = None
    /\ save_log = None
    /\ trainer = None
    /\ tpc = "new"
    /\ epoch = 0
    /\ step = 0
    /\ net = None
    /\ writer = None
    /\ events = <<>>
    /\ train_locals = None

\* PreProcess*.__init__
Construct ==
    /\ pc = "new"
    /\ \E cls \in Classes, challenge \in Challenges, use_seed \in BOOLEAN,
          mask_callable \in BOOLEAN, weight_callable \in BOOLEAN,
          divisor \in 1..MaxDivisor, augment_data \in BOOLEAN,
          crop_center \in BOOLEAN, resolution \in Resolutions :
         \* parameters a class does not take are not enumerated twice
         /\ HasDivisor(cls) \/ divisor = 1
         /\ HasWeight(cls) \/ weight_callable
         /\ HasAugment(cls) \/ (~augment_data /\ crop_center)
         /\ IF ~mask_callable \/ (HasWeight(cls) /\ ~weight_callable)
            THEN /\ exc' = "AssertionError"
                 /\ pc' = "construct_failed"
                 /\ self' = self
            ELSE IF challenge \notin {"singlecoil", "multicoil"}
            THEN /\ exc' = "ValueError"
                 /\ pc' = "construct_failed"
                 /\ self' = self
            ELSE /\ exc' = exc
                 /\ pc' = "idle"
                 /\ self' = NewInstance(cls, challenge, use_seed, divisor, augment_data,
                                        crop_center, resolution)
    /\ UNCHANGED <<args, caller_kspace, kspace_target, seed, masked_kspace, mask, info,
                   mask_calls, locals, ret, stages, threads, CkptVars, TrainerVars>>

\* ---------------------------------------------------------------- __call__: validation
\* a validation without the batch-size check
Validate_nobatch(k) ==
    LET kt == IF k.rank = 3 THEN Expand3(k)
              ELSE IF k.rank = 4 THEN Expand4(k)
              ELSE k
    IN IF k.rank \notin {3, 4, 5} THEN [exc |-> "RuntimeError", kspace_target |-> k]
       ELSE [exc |-> NoExc, kspace_target |-> kt]

\* the first lines of every __call__: the rank is normalised to 5 axes, then the batch
\* axis has to be 1; the result is the exception raised and the local kspace_target
Validate(k) ==
    LET kt == IF k.rank = 3 THEN Expand3(k)
              ELSE IF k.rank = 4 THEN Expand4(k)
              ELSE k
    IN IF k.rank \notin {3, 4, 5} THEN [exc |-> "RuntimeError", kspace_target |-> k]
       ELSE IF kt.batch # 1 THEN [exc |-> "NotImplementedError", kspace_target |-> kt]
       ELSE [exc |-> NoExc, kspace_target |-> kt]

\* __call__(kspace_target, target, attrs, file_name, slice_num) up to the mask
Call ==
    /\ pc = "idle"
    /\ self.cls \in Classes
    /\ \E rank \in Ranks, batch \in BatchSizes, coils \in CoilCounts,
          h \in {Height}, w \in 1..MaxWidth,
          file_name \in FileNames, slice_num \in SliceNums, attrs \in AttrsMappings :
         \* a rank-3 tensor has no coil axis, only a rank-5 tensor has a batch axis
         /\ rank \in {3, 4, 5} \/ (coils = 1 /\ w = 1)
         /\ rank = 3 => coils = 1
         /\ rank = 5 \/ batch = 1
         /\ LET k == RawKspace(rank, batch, coils, h, w)
                v == Validate(k)
            IN /\ args' = [kspace_target |-> k, target |-> RawTarget,
                           attrs |-> attrs,
                           file_name |-> file_name, slice_num |-> slice_num]
               /\ caller_kspace' = k
               /\ kspace_target' = v.kspace_target
               /\ exc' = v.exc
               /\ pc' = IF v.exc = NoExc THEN "validated" ELSE "raised"
    /\ stages' = <<"Validate">>
    /\ UNCHANGED <<self, seed, masked_kspace, mask, info, mask_calls, locals, ret, threads, CkptVars, TrainerVars>>

\* ---------------------------------------------------------------- __call__: masking
\* a seed that also depends on the slice
SeedOf_slice(use_seed, file_name, slice_num) ==
    IF ~use_seed THEN None ELSE TupleSeed(Append(OrdTuple(file_name), slice_num))

\* seed = None if not self.use_seed else tuple(map(ord, file_name))
SeedOf(use_seed, file_name, slice_num) ==
    IF ~use_seed THEN None ELSE TupleSeed(OrdTuple(file_name))

\* the two lines under "Apply mask" of every __call__
Mask ==
    /\ pc = "validated"
    /\ \E num_low \in 0..kspace_target.w :
         LET sd == SeedOf(self.use_seed, args.file_name, args.slice_num)
             m == MaskFunc(kspace_target.w, sd, num_low)
         IN /\ seed' = sd
            /\ mask' = m.mask
            /\ info' = m.info
            /\ masked_kspace' = ApplyInfoMask(kspace_target, m.mask)
            /\ mask_calls' = mask_calls \cup {[file_name |-> args.file_name, seed |-> sd]}
    /\ pc' = "masked"
    /\ stages' = Append(stages, "Mask")
    /\ UNCHANGED <<self, exc, args, caller_kspace, kspace_target, locals, ret, threads, CkptVars, TrainerVars>>

\* the same pad on both sides, as TrainSliceTransform computes it
PadFor_sym(width, divisor) ==
    LET pad == (divisor - (width % divisor)) \div 2
    IN <<pad, pad>>

\* the padding without the special case for margin = 0
PadFor_nofix(width, divisor) ==
    LET margin == width % divisor
    IN <<(divisor - margin) \div 2, (1 + divisor - margin) \div 2>>

\* the padding with the larger half on the left
PadFor_swapped(width, divisor) ==
    LET margin == width % divisor
    IN IF margin > 0
       THEN <<(1 + divisor - margin) \div 2, (divisor - margin) \div 2>>
       ELSE <<0, 0>>

\* the padding of the width axis in PreProcessWK and PreProcessWSK
PadFor(width, divisor) ==
    LET margin == width % divisor
    IN IF margin > 0
       THEN <<(divisor - margin) \div 2, (1 + divisor - margin) \div 2>>
       ELSE <<0, 0>>

\* the call returns (inputs, targets, extra_params)
Return(inputs, targets, extra_params, kt, lc) ==
    /\ ret' = [inputs |-> inputs, targets |-> targets, extra_params |-> extra_params]
    /\ locals' = lc
    /\ kspace_target' = kt
    /\ pc' = "returned"
    /\ exc' = NoExc

\* the call raises from a crop that does not fit
Raise(e) ==
    /\ pc' = "raised"
    /\ exc' = e
    /\ UNCHANGED <<ret, locals, kspace_target, caller_kspace>>

\* ---------------------------------------------------------------- the end of a call
\* no statement of any __call__ assigns an attribute of self: the instance after the call
InstanceAfterCall_cached(slf, r) ==
    IF r.exc = NoExc THEN Update(slf, [last_scale |-> r.locals.scale]) ELSE slf

InstanceAfterCall(slf, r) == slf

\* the call ends with the outcome r of its strategy: a return or an exception
Finish(r) ==
    /\ IF r.exc = NoExc
       THEN /\ Return(r.inputs, r.targets, r.extra_params, r.kspace_target, r.locals)
            /\ caller_kspace' = WriteThrough(caller_kspace, r.written)
       ELSE Raise(r.exc)
    /\ stages' = stages \o r.stages
    /\ self' = InstanceAfterCall(self, r)

\* ---------------------------------------------------------------- PreProcessWK
\* a targets bundle without the complex-image target
WK_targets_nocmg(kt, cmg_target, img_target, img_input, target, k_scaling) ==
    LET targets == [kspace_targets |-> kt, img_targets |-> img_target,
                    img_inputs |-> img_input]
    IN IF kt.coils = 15
       THEN Update(targets, [rss_targets |-> MulScalar(target, k_scaling)])
       ELSE targets

WK_targets(kt, cmg_target, img_target, img_input, target, k_scaling) ==
    LET targets == [kspace_targets |-> kt, cmg_targets |-> cmg_target,
                    img_targets |-> img_target, img_inputs |-> img_input]
    IN IF kt.coils = 15
       THEN Update(targets, [rss_targets |-> MulScalar(target, k_scaling)])
       ELSE targets

\* the statements of PreProcessWK.__call__ after the mask, by stage, in source order:
\* 236-237 weighting, 240 ifft2, 244-248 scale, 255 scale, 256 ifft2, 260-265 targets,
\* 267-274 pad
WK_stages ==
    <<"Weight", "Transform-Domain", "Normalize-Scale", "Normalize-Scale",
      "Transform-Domain", "Assemble", "Pad">>

\* PreProcessWK.__call__ after the mask
WK_Run(slf, a, kt0, mk0, msk, inf) ==
    LET weighting == WeightFunc(mk0)
        mk1 == IMulWeight(mk0, weighting)
        img_input == complex_abs(ifft2(mk1))
        k_scale == Std(mk1)
        k_scaling == Recip(k_scale)
        mk2 == kspace_to_nchw(IMulScalar(mk1, k_scaling))
        extra_params == Update(Update([k_scales |-> k_scale, masks |-> msk,
                                       weightings |-> weighting], inf), a.attrs)
        kt == IMulScalar(kt0, k_scaling)
        cmg_target == ifft2(kt)
        img_target == complex_abs(cmg_target)
        targets == WK_targets(kt, cmg_target, img_target, img_input, a.target, k_scaling)
        pad == PadFor(mk2.w, slf.divisor)
        inputs == Pad(mk2, pad)
    IN [exc |-> NoExc, inputs |-> inputs, targets |-> targets,
        extra_params |-> extra_params, kspace_target |-> kt, written |-> kt,
        locals |-> [unpadded |-> mk2, pad |-> pad, scale |-> k_scale,
                    weighting |-> weighting],
        stages |-> WK_stages]

WK_Body ==
    /\ pc = "masked"
    /\ self.cls = "PreProcessWK"
    /\ Finish(WK_Run(self, args, kspace_target, masked_kspace, mask, info))
    /\ UNCHANGED <<args, seed, masked_kspace, mask, info, mask_calls, threads, CkptVars, TrainerVars>>

\* ---------------------------------------------------------------- PreProcessWSK
WSK_targets(kt, cmg_target, img_target, semi_kspace_target, img_input, target) ==
    LET targets == [semi_kspace_targets |-> semi_kspace_target, kspace_targets |-> kt,
                    cmg_targets |-> cmg_target, img_targets |-> img_target,
                    img_inputs |-> img_input]
    IN IF kt.coils = 15
       THEN Update(targets, [rss_targets |-> target])
       ELSE targets

\* the statements of PreProcessWSK.__call__ after the mask, by stage, in source order:
\* 410 ifft2, 412 ifft1, 414-415 weighting, 419-421 scale, 429 scale, 430 ifft2, 432 ifft1,
\* 435-439 targets, 441-448 pad
WSK_stages ==
    <<"Transform-Domain", "Transform-Domain", "Weight", "Normalize-Scale",
      "Normalize-Scale", "Transform-Domain", "Transform-Domain", "Assemble", "Pad">>

\* PreProcessWSK.__call__ after the mask
WSK_Run(slf, a, kt0, mk0, msk, inf) ==
    LET img_input == complex_abs(ifft2(mk0))
        semi_kspace == ifft1(mk0, "height")
        weighting == WeightFunc(semi_kspace)
        sk1 == IMulWeight(semi_kspace, weighting)
        sk_scale == Std(sk1)
        inputs0 == kspace_to_nchw(IDivScalar(sk1, sk_scale))
        extra_params == Update(Update([sk_scales |-> sk_scale, masks |-> msk,
                                       weightings |-> weighting], inf), a.attrs)
        kt == IDivScalar(kt0, sk_scale)
        cmg_target == ifft2(kt)
        img_target == complex_abs(cmg_target)
        semi_kspace_target == ifft1(kt, "height")
        targets == WSK_targets(kt, cmg_target, img_target, semi_kspace_target,
                               img_input, a.target)
        pad == PadFor(inputs0.w, slf.divisor)
        inputs == Pad(inputs0, pad)
    IN [exc |-> NoExc, inputs |-> inputs, targets |-> targets,
        extra_params |-> extra_params, kspace_target |-> kt, written |-> kt,
        locals |-> [unpadded |-> inputs0, pad |-> pad, scale |-> sk_scale,
                    weighting |-> weighting],
        stages |-> WSK_stages]

WSK_Body ==
    /\ pc = "masked"
    /\ self.cls = "PreProcessWSK"
    /\ Finish(WSK_Run(self, args, kspace_target, masked_kspace, mask, info))
    /\ UNCHANGED <<args, seed, masked_kspace, mask, info, mask_calls, threads, CkptVars, TrainerVars>>

\* ---------------------------------------------------------------- PreProcessCMG
\* flips that mirror the up-down axis whichever flip is drawn
FlipComplex_one_axis(t, flip_lr, flip_ud) ==
    IF flip_lr \/ flip_ud THEN torch_flip(t, {-3}) ELSE t

\* the three flip branches of the complex-image strategies
FlipComplex(t, flip_lr, flip_ud) ==
    IF flip_lr /\ flip_ud THEN torch_flip(t, {-3, -2})
    ELSE IF flip_ud THEN torch_flip(t, {-3})
    ELSE IF flip_lr THEN torch_flip(t, {-2})
    ELSE t

\* the three flip branches applied to a real image (height, width)
FlipReal(t, flip_lr, flip_ud) ==
    IF flip_lr /\ flip_ud THEN torch_flip(t, {-2, -1})
    ELSE IF flip_ud THEN torch_flip(t, {-2})
    ELSE IF flip_lr THEN torch_flip(t, {-1})
    ELSE t

\* a k-space target that no augmentation regenerates
CMG_kspace_target_kept(kt, cmg_target, augment_data, flip_lr, flip_ud) == kt

\* kspace_target after the augmentation block of PreProcessCMG
CMG_kspace_target(kt, cmg_target, augment_data, flip_lr, flip_ud) ==
    IF augment_data THEN fft2(cmg_target) ELSE kt

\* a k-space target that the flips leave as it was
CMGIMG_kspace_target_kept(kt, cmg_target, augment_data, flip_lr, flip_ud) == kt

\* kspace_target after the augmentation block of PreProcessCMGIMG
CMGIMG_kspace_target(kt, cmg_target, augment_data, flip_lr, flip_ud) ==
    IF augment_data /\ (flip_lr \/ flip_ud) THEN fft2(cmg_target) ELSE kt

\* the optional rss_targets entry of the strategies that test self.challenge
ChallengeRss(targets, challenge, target) ==
    IF challenge = "multicoil" THEN Update(targets, [rss_targets |-> target]) ELSE targets

\* the stages of a call that the first center crop ends with an exception
Crop_failed_stages == <<"Transform-Domain", "Crop">>

\* a complex-image strategy that computes the scale before it crops
CMG_stages_scale_first(crop_center, augment_data, regenerated) ==
    <<"Transform-Domain", "Normalize-Scale">>
    \o (IF crop_center THEN <<"Crop">> ELSE <<>>)
    \o <<"Normalize-Scale", "Transform-Domain">>
    \o (IF crop_center THEN <<"Crop">> ELSE <<>>)
    \o (IF augment_data THEN <<"Augment">> ELSE <<>>)
    \o (IF regenerated THEN <<"Transform-Domain">> ELSE <<>>)
    \o <<"Assemble">>

\* the statements of PreProcessCMG.__call__ and PreProcessCMGIMG.__call__ after the mask,
\* by stage, in source order: 574 ifft2, 576-577 crop, 579-580 scale, 587 scale, 588 ifft2,
\* 590-591 crop, 594-612 flips, 614 fft2, 618-626 targets
CMG_stages(crop_center, augment_data, regenerated) ==
    <<"Transform-Domain">>
    \o (IF crop_center THEN <<"Crop">> ELSE <<>>)
    \o <<"Normalize-Scale", "Normalize-Scale", "Transform-Domain">>
    \o (IF crop_center THEN <<"Crop">> ELSE <<>>)
    \o (IF augment_data THEN <<"Augment">> ELSE <<>>)
    \o (IF regenerated THEN <<"Transform-Domain">> ELSE <<>>)
    \o <<"Assemble">>

\* PreProcessCMG.__call__ after the mask, with the two flip decisions it draws
CMG_Run(slf, a, kt0, mk0, msk, inf, flip_lr, flip_ud) ==
    LET ci0 == ifft2(mk0)
    IN IF slf.crop_center /\ ~CanCrop(ci0, slf.resolution)
       THEN [exc |-> "ShapeError", stages |-> Crop_failed_stages]
       ELSE
         LET ci1 == IF slf.crop_center THEN CenterCrop(ci0, slf.resolution) ELSE ci0
             cmg_scale == Std(ci1)
             ci2 == IDivScalar(ci1, cmg_scale)
             extra_params == Update(Update([cmg_scales |-> cmg_scale, masks |-> msk],
                                           inf), a.attrs)
             kt == IDivScalar(kt0, cmg_scale)
             cmg0 == ifft2(kt)
             cmg1 == IF slf.crop_center THEN CenterCrop(cmg0, slf.resolution) ELSE cmg0
             complex_image == FlipComplex(ci2, flip_lr, flip_ud)
             cmg_target == FlipComplex(cmg1, flip_lr, flip_ud)
             target == FlipReal(a.target, flip_lr, flip_ud)
             kt2 == CMG_kspace_target(kt, cmg_target, slf.augment_data, flip_lr, flip_ud)
             img_target == complex_abs(cmg_target)
             img_inputs == complex_abs(complex_image)
             targets == ChallengeRss([kspace_targets |-> kt2,
                                      cmg_targets |-> cmg_target,
                                      img_targets |-> img_target,
                                      img_inputs |-> img_inputs],
                                     slf.challenge, target)
             inputs == kspace_to_nchw(complex_image)
         IN [exc |-> NoExc, inputs |-> inputs, targets |-> targets,
             extra_params |-> extra_params, kspace_target |-> kt2, written |-> kt,
             locals |-> [scale |-> cmg_scale, flip_lr |-> flip_lr, flip_ud |-> flip_ud],
             stages |-> CMG_stages(slf.crop_center, slf.augment_data, slf.augment_data)]

CMG_Body ==
    /\ pc = "masked"
    /\ self.cls = "PreProcessCMG"
    /\ \E flip_lr \in BOOLEAN, flip_ud \in BOOLEAN :
         /\ self.augment_data \/ (~flip_lr /\ ~flip_ud)
         /\ Finish(CMG_Run(self, args, kspace_target, masked_kspace, mask, info,
                           flip_lr, flip_ud))
    /\ UNCHANGED <<args, seed, masked_kspace, mask, info, mask_calls, threads, CkptVars, TrainerVars>>

\* ---------------------------------------------------------------- PreProcessCMGIMG
\* PreProcessCMGIMG.__call__ after the mask, with the two flip decisions it draws
CMGIMG_Run(slf, a, kt0, mk0, msk, inf, flip_lr, flip_ud) ==
    LET ci0 == ifft2(mk0)
    IN IF slf.crop_center /\ ~CanCrop(ci0, slf.resolution)
       THEN [exc |-> "ShapeError", stages |-> Crop_failed_stages]
       ELSE
         LET ci1 == IF slf.crop_center THEN CenterCrop(ci0, slf.resolution) ELSE ci0
             cmg_scale == Std(ci1)
             ci2 == IDivScalar(ci1, cmg_scale)
             extra_params == Update(Update([cmg_scales |-> cmg_scale, masks |-> msk],
                                           inf), a.attrs)
             kt == IDivScalar(kt0, cmg_scale)
             cmg0 == ifft2(kt)
             cmg1 == IF slf.crop_center THEN CenterCrop(cmg0, slf.resolution) ELSE cmg0
             complex_image == FlipComplex(ci2, flip_lr, flip_ud)
             cmg_target == FlipComplex(cmg1, flip_lr, flip_ud)
             target == FlipReal(a.target, flip_lr, flip_ud)
             kt2 == CMGIMG_kspace_target(kt, cmg_target, slf.augment_data, flip_lr, flip_ud)
             img_target == complex_abs(cmg_target)
             img_inputs == complex_abs(complex_image)
             targets == ChallengeRss([kspace_targets |-> kt2,
                                      cmg_targets |-> cmg_target,
                                      img_targets |-> img_target,
                                      cmg_inputs |-> complex_image,
                                      img_inputs |-> img_inputs],
                                     slf.challenge, target)
             concat_image == Concat(complex_image, img_inputs)
             inputs == kspace_to_nchw(concat_image)
         IN [exc |-> NoExc, inputs |-> inputs, targets |-> targets,
             extra_params |-> extra_params, kspace_target |-> kt2, written |-> kt,
             locals |-> [scale |-> cmg_scale, flip_lr |-> flip_lr, flip_ud |-> flip_ud],
             stages |-> CMG_stages(slf.crop_center, slf.augment_data,
                                   slf.augment_data /\ (flip_lr \/ flip_ud))]

CMGIMG_Body ==
    /\ pc = "masked"
    /\ self.cls = "PreProcessCMGIMG"
    /\ \E flip_lr \in BOOLEAN, flip_ud \in BOOLEAN :
         /\ self.augment_data \/ (~flip_lr /\ ~flip_ud)
         /\ Finish(CMGIMG_Run(self, args, kspace_target, masked_kspace, mask, info,
                              flip_lr, flip_ud))
    /\ UNCHANGED <<args, seed, masked_kspace, mask, info, mask_calls, threads, CkptVars, TrainerVars>>

\* ---------------------------------------------------------------- PreProcessIMG
\* the statements of PreProcessIMG.__call__ after the mask, by stage, in source order:
\* 766 ifft2, 767-768 crop, 769-770 scale, 776 ifft2, 777-778 crop, 779 scale,
\* 782-799 flips, 802-805 targets
IMG_stages(crop_center, augment_data) ==
    <<"Transform-Domain">>
    \o (IF crop_center THEN <<"Crop">> ELSE <<>>)
    \o <<"Normalize-Scale", "Transform-Domain">>
    \o (IF crop_center THEN <<"Crop">> ELSE <<>>)
    \o <<"Normalize-Scale">>
    \o (IF augment_data THEN <<"Augment">> ELSE <<>>)
    \o <<"Assemble">>

\* PreProcessIMG.__call__ after the mask, with the two flip decisions it draws
IMG_Run(slf, a, kt0, mk0, msk, inf, flip_lr, flip_ud) ==
    LET image0 == complex_abs(ifft2(mk0))
    IN IF slf.crop_center /\ ~CanCrop(image0, slf.resolution)
       THEN [exc |-> "ShapeError", stages |-> Crop_failed_stages]
       ELSE
         LET image1 == IF slf.crop_center THEN CenterCrop(image0, slf.resolution)
                       ELSE image0
             img_scale == Std(image1)
             image2 == IDivScalar(image1, img_scale)
             extra_params == Update(Update([img_scales |-> img_scale, masks |-> msk],
                                           inf), a.attrs)
             it0 == complex_abs(ifft2(kt0))
             it1 == IF slf.crop_center THEN CenterCrop(it0, slf.resolution) ELSE it0
             it2 == IDivScalar(it1, img_scale)
             image == FlipReal(image2, flip_lr, flip_ud)
             img_target == FlipReal(it2, flip_lr, flip_ud)
             target == FlipReal(a.target, flip_lr, flip_ud)
             targets == ChallengeRss([img_targets |-> img_target, img_inputs |-> image],
                                     slf.challenge, target)
         IN [exc |-> NoExc, inputs |-> image, targets |-> targets,
             extra_params |-> extra_params, kspace_target |-> kt0, written |-> kt0,
             locals |-> [scale |-> img_scale, flip_lr |-> flip_lr, flip_ud |-> flip_ud],
             stages |-> IMG_stages(slf.crop_center, slf.augment_data)]

IMG_Body ==
    /\ pc = "masked"
    /\ self.cls = "PreProcessIMG"
    /\ \E flip_lr \in BOOLEAN, flip_ud \in BOOLEAN :
         /\ self.augment_data \/ (~flip_lr /\ ~flip_ud)
         /\ Finish(IMG_Run(self, args, kspace_target, masked_kspace, mask, info,
                           flip_lr, flip_ud))
    /\ UNCHANGED <<args, seed, masked_kspace, mask, info, mask_calls, threads, CkptVars, TrainerVars>>

\* ---------------------------------------------------------------- PreProcessWSemiKCC
\* the statements of PreProcessWSemiKCC.__call__ after the mask, by stage, in source order:
\* 856 ifft2, 856 crop, 857 fft1, 859 ifft2, 860 crop, 865 fft1, 866-867 weighting,
\* 869-870 scale, 878 ifft2, 879 crop, 880 scale, 882 fft1, 883 fft2, 886-891 targets
WSemiKCC_stages ==
    <<"Transform-Domain", "Crop", "Transform-Domain", "Transform-Domain", "Crop",
      "Transform-Domain", "Weight", "Normalize-Scale", "Transform-Domain", "Crop",
      "Normalize-Scale", "Transform-Domain", "Transform-Domain", "Assemble">>

\* PreProcessWSemiKCC.__call__ after the mask
WSemiKCC_Run(slf, a, kt0, mk0, msk, inf) ==
    LET num_low_freqs == inf.num_low_frequency
        acs_mask == find_acs_mask(kt0, num_low_freqs)
        acs_kspace == MulAcsMask(kt0, acs_mask)
        acs_image == ifft2(acs_kspace)
    IN IF ~CanCrop(acs_image, slf.resolution)
       THEN [exc |-> "ShapeError", stages |-> Crop_failed_stages]
       ELSE
         LET semi_kspace_acs == fft1(CenterCrop(acs_image, slf.resolution), "width")
             complex_image == CenterCrop(ifft2(mk0), slf.resolution)
             img_input == complex_abs(complex_image)
             semi_kspace == fft1(complex_image, "width")
             weighting == WeightFunc(semi_kspace)
             sk1 == IMulWeight(semi_kspace, weighting)
             sk_scale == Std(sk1)
             inputs == kspace_to_nchw(IDivScalar(sk1, sk_scale))
             extra_params == Update(Update([sk_scales |-> sk_scale, masks |-> msk,
                                            weightings |-> weighting], inf), a.attrs)
             cmg_target == IDivScalar(CenterCrop(ifft2(kt0), slf.resolution), sk_scale)
             img_target == complex_abs(cmg_target)
             semi_kspace_target == fft1(cmg_target, "width")
             kt == fft2(cmg_target)
             targets == ChallengeRss([semi_kspace_targets |-> semi_kspace_target,
                                      kspace_targets |-> kt,
                                      cmg_targets |-> cmg_target,
                                      img_targets |-> img_target,
                                      img_inputs |-> img_input,
                                      semi_kspace_acss |-> semi_kspace_acs],
                                     slf.challenge, a.target)
         IN [exc |-> NoExc, inputs |-> inputs, targets |-> targets,
             extra_params |-> extra_params, kspace_target |-> kt, written |-> kt0,
             locals |-> [scale |-> sk_scale, weighting |-> weighting,
                         acs_mask |-> acs_mask],
             stages |-> WSemiKCC_stages]

WSemiKCC_Body ==
    /\ pc = "masked"
    /\ self.cls = "PreProcessWSemiKCC"
    /\ Finish(WSemiKCC_Run(self, args, kspace_target, masked_kspace, mask, info))
    /\ UNCHANGED <<args, seed, masked_kspace, mask, info, mask_calls, threads, CkptVars, TrainerVars>>

\* ---------------------------------------------------------------- slice transforms
SliceClasses == {"TrainSliceTransform", "SubmitSliceTransform"}

\* what a caller may pass as mask_func: a mask function, an object that cannot be
\* called, or nothing (the strings stand for the three kinds of object)
NoMaskFunc == "None"
MaskFuncArgs == {"mask_func", "not_callable", NoMaskFunc}

\* the number of array axes of the k-space a data set hands to a slice transform
SliceNdims == {2, 3, 4}

\* the attributes the constructor of each slice transform stores
SliceInstance(cls, mask_func, which_challenge, use_seed, divisor) ==
    IF cls = "TrainSliceTransform"
    THEN [cls |-> cls, mask_func |-> mask_func, which_challenge |-> which_challenge,
          use_seed |-> use_seed, divisor |-> divisor]
    ELSE [cls |-> cls, which_challenge |-> which_challenge, mask_func |-> mask_func,
          divisor |-> divisor]

\* TrainSliceTransform.__init__ and SubmitSliceTransform.__init__: the challenge string is
\* checked, mask_func is stored as it was given
NewSliceInstance(cls, mask_func, which_challenge, use_seed, divisor) ==
    IF which_challenge \notin {"singlecoil", "multicoil"}
    THEN [exc |-> "ValueError"]
    ELSE [exc |-> NoExc,
          self |-> SliceInstance(cls, mask_func, which_challenge, use_seed, divisor)]

SliceConstruct ==
    /\ pc = "new"
    /\ \E cls \in SliceClasses, mask_func \in MaskFuncArgs, which_challenge \in Challenges,
          use_seed \in BOOLEAN, divisor \in 1..MaxDivisor :
         \* SubmitSliceTransform takes no use_seed
         /\ cls = "TrainSliceTransform" \/ use_seed
         /\ LET n == NewSliceInstance(cls, mask_func, which_challenge, use_seed, divisor)
            IN IF n.exc = NoExc
               THEN /\ self' = n.self
                    /\ pc' = "idle"
                    /\ exc' = exc
               ELSE /\ self' = self
                    /\ pc' = "construct_failed"
                    /\ exc' = n.exc
    /\ UNCHANGED <<args, caller_kspace, kspace_target, seed, masked_kspace, mask, info,
                   mask_calls, locals, ret, stages, threads, CkptVars, TrainerVars>>

\* the complex numpy array of a slice: (rows, cols) or (num_coils, height, width); the
\* tensor made of it has one more axis
RawSlice(ndim, h, w) ==
    RawKspace(ndim + 1, 1, IF ndim = 2 THEN 1 ELSE 15, h, w)

\* to_tensor(data): refuses an array that is not complex or whose width is odd
to_tensor(k, is_complex) ==
    IF ~is_complex \/ k.w % 2 # 0
    THEN [exc |-> "InvalidInputError"]
    ELSE [exc |-> NoExc, tensor |-> [k EXCEPT !.base = "fresh"]]

\* apply_mask(data, mask_func, seed): calls mask_func, which an object that is not
\* callable answers with a TypeError
apply_mask(data, mask_func, sd) ==
    IF mask_func # "mask_func"
    THEN [exc |-> "TypeError: object is not callable"]
    ELSE [exc |-> NoExc, masked_kspace |-> [data EXCEPT !.masked = TRUE, !.base = "fresh"],
          mask |-> [w |-> data.w, seed |-> sd]]

\* [coils, h, w, 2] -> [1, 2 * coils, h, w]
k_slice_to_nchw(t) == [t EXCEPT !.layout = "nchw", !.rank = 4, !.base = "fresh"]

\* pad = (self.divisor - (data.shape[-1] % self.divisor)) // 2; pad = [pad, pad]
SlicePad(width, divisor) ==
    LET pad == (divisor - (width % divisor)) \div 2
    IN <<pad, pad>>

\* the padded network input of both slice transforms
SliceData(masked, divisor) ==
    LET data == k_slice_to_nchw(masked)
    IN Pad(data, SlicePad(data.w, divisor))

\* TrainSliceTransform.__call__
TrainSlice_Run(slf, k, is_complex, ndim, file_name, slice_num) ==
    IF ~is_complex \/ k.w % 2 # 0 THEN [exc |-> "AssertionError"]
    ELSE IF ndim \notin {2, 3} THEN [exc |-> "TypeError"]
    ELSE
      LET t == to_tensor(IF ndim = 2 THEN [k EXCEPT !.rank = 4] ELSE k, is_complex)
      IN IF t.exc # NoExc THEN [exc |-> t.exc]
         ELSE
           LET kspace == t.tensor
               labels == complex_abs(ifft2(kspace))
               sd == SeedOf(slf.use_seed, file_name, slice_num)
               m == apply_mask(kspace, slf.mask_func, sd)
           IN IF m.exc # NoExc THEN [exc |-> m.exc]
              ELSE [exc |-> NoExc, seed |-> sd, mask |-> m.mask,
                    ret |-> [data |-> SliceData(m.masked_kspace, slf.divisor),
                             labels |-> labels]]

\* SubmitSliceTransform.__call__
SubmitSlice_Run(slf, k, is_complex, ndim, file_name, slice_num) ==
    LET t == to_tensor(k, is_complex)
    IN IF t.exc # NoExc THEN [exc |-> t.exc]
       ELSE IF slf.mask_func # NoMaskFunc
       THEN LET sd == TupleSeed(OrdTuple(file_name))
                m == apply_mask(t.tensor, slf.mask_func, sd)
            IN IF m.exc # NoExc THEN [exc |-> m.exc]
               ELSE [exc |-> NoExc, seed |-> sd, mask |-> m.mask,
                     ret |-> [data |-> SliceData(m.masked_kspace, slf.divisor)]]
       ELSE [exc |-> NoExc, seed |-> None, mask |-> None,
             ret |-> [data |-> SliceData(t.tensor, slf.divisor)]]

\* one call of a slice transform on a slice of the data set
SliceCall ==
    /\ pc = "idle"
    /\ self.cls \in SliceClasses
    /\ \E ndim \in SliceNdims, is_complex \in BOOLEAN, w \in 1..MaxWidth,
          file_name \in FileNames :
         LET k == RawSlice(ndim, Height, w)
             r == IF self.cls = "TrainSliceTransform"
                  THEN TrainSlice_Run(self, k, is_complex, ndim, file_name, 0)
                  ELSE SubmitSlice_Run(self, k, is_complex, ndim, file_name, 0)
         IN /\ args' = [kspace |-> k, is_complex |-> is_complex, ndim |-> ndim,
                        file_name |-> file_name, slice_num |-> 0]
            /\ exc' = r.exc
            /\ IF r.exc = NoExc
               THEN /\ pc' = "slice_returned"
                    /\ ret' = r.ret
                    /\ seed' = r.seed
                    /\ mask' = r.mask
               ELSE /\ pc' = "slice_raised"
                    /\ UNCHANGED <<ret, seed, mask>>
    /\ UNCHANGED <<self, caller_kspace, kspace_target, masked_kspace, info, mask_calls,
                   locals, stages, threads, CkptVars, TrainerVars>>

\* ---------------------------------------------------------------- the next call
\* the caller takes the result (or the exception); the instance is ready for another slice
Resume ==
    /\ pc \in {"returned", "raised", "slice_returned", "slice_raised"}
    /\ pc' = "idle"
    /\ exc' = NoExc
    /\ args' = None
    /\ caller_kspace' = None
    /\ kspace_target' = None
    /\ seed' = None
    /\ masked_kspace' = None
    /\ mask' = None
    /\ info' = None
    /\ locals' = None
    /\ ret' = None
    /\ stages' = <<>>
    /\ UNCHANGED <<self, mask_calls, threads, CkptVars, TrainerVars>>

Next ==
    \/ Construct
    \/ SliceConstruct
    \/ SliceCall
    \/ Call
    \/ Mask
    \/ WK_Body
    \/ WSK_Body
    \/ CMG_Body
    \/ CMGIMG_Body
    \/ IMG_Body
    \/ WSemiKCC_Body
    \/ Resume

Spec == Init /\ [][Next]_vars

\* ---------------------------------------------------------------- concurrent calls
\* the data loader's workers call one shared transform instance at once, each on its own
\* slice of the volume; a call is the three steps of the sequential model, its locals are
\* the fields of its thread record
ConcFileName == <<"a", "b">>
ConcRanks == {4, 6}
ConcWidth == 2
ConcNumLow == 1

\* the strategy of the instance, run on the locals of one call
RunOf(slf, a, kt0, mk0, msk, inf, flip_lr, flip_ud) ==
    CASE slf.cls = "PreProcessWK" -> WK_Run(slf, a, kt0, mk0, msk, inf)
      [] slf.cls = "PreProcessWSK" -> WSK_Run(slf, a, kt0, mk0, msk, inf)
      [] slf.cls = "PreProcessCMG" -> CMG_Run(slf, a, kt0, mk0, msk, inf, flip_lr, flip_ud)
      [] slf.cls = "PreProcessCMGIMG" ->
           CMGIMG_Run(slf, a, kt0, mk0, msk, inf, flip_lr, flip_ud)
      [] slf.cls = "PreProcessIMG" -> IMG_Run(slf, a, kt0, mk0, msk, inf, flip_lr, flip_ud)
      [] slf.cls = "PreProcessWSemiKCC" -> WSemiKCC_Run(slf, a, kt0, mk0, msk, inf)

\* worker t enters __call__ with slice t of the volume and validates it
ConcCall ==
    /\ pc = "idle"
    /\ \E t \in Threads, rank \in ConcRanks :
         /\ threads[t].pc = "idle"
         /\ LET k == RawKspace(rank, 1, 15, Height, ConcWidth)
                v == Validate(k)
                a == [kspace_target |-> k, target |-> RawTarget,
                      attrs |-> [acquisition |-> "CORPD_FBK"],
                      file_name |-> ConcFileName, slice_num |-> t]
            IN threads' = [threads EXCEPT ![t] =
                   IF v.exc = NoExc
                   THEN [pc |-> "validated", args |-> a, kspace_target |-> v.kspace_target]
                   ELSE [pc |-> "raised", args |-> a, exc |-> v.exc]]
    /\ UNCHANGED <<self, pc, exc, args, caller_kspace, kspace_target, seed, masked_kspace,
                   mask, info, mask_calls, locals, ret, stages, CkptVars, TrainerVars>>

\* worker t applies the mask
ConcMask ==
    /\ \E t \in Threads :
         /\ threads[t].pc = "validated"
         /\ LET th == threads[t]
                sd == SeedOf(self.use_seed, th.args.file_name, th.args.slice_num)
                m == MaskFunc(th.kspace_target.w, sd, ConcNumLow)
            IN /\ threads' = [threads EXCEPT ![t] =
                      [pc |-> "masked", args |-> th.args, kspace_target |-> th.kspace_target,
                       seed |-> sd, mask |-> m.mask, info |-> m.info,
                       masked_kspace |-> ApplyInfoMask(th.kspace_target, m.mask)]]
               /\ mask_calls' = mask_calls \cup {[file_name |-> th.args.file_name, seed |-> sd]}
    /\ UNCHANGED <<self, pc, exc, args, caller_kspace, kspace_target, seed, masked_kspace,
                   mask, info, locals, ret, stages, CkptVars, TrainerVars>>

\* worker t runs the rest of the strategy and returns or raises
ConcBody ==
    /\ \E t \in Threads, flip_lr \in BOOLEAN, flip_ud \in BOOLEAN :
         /\ threads[t].pc = "masked"
         /\ (HasAugment(self.cls) /\ self.augment_data) \/ (~flip_lr /\ ~flip_ud)
         /\ LET th == threads[t]
                r == RunOf(self, th.args, th.kspace_target, th.masked_kspace, th.mask,
                           th.info, flip_lr, flip_ud)
            IN /\ threads' = [threads EXCEPT ![t] =
                      IF r.exc = NoExc
                      THEN [pc |-> "returned", args |-> th.args,
                            ret |-> [inputs |-> r.inputs, targets |-> r.targets,
                                     extra_params |-> r.extra_params],
                            locals |-> r.locals]
                      ELSE [pc |-> "raised", args |-> th.args, exc |-> r.exc]]
               /\ self' = InstanceAfterCall(self, r)
    /\ UNCHANGED <<pc, exc, args, caller_kspace, kspace_target, seed, masked_kspace,
                   mask, info, mask_calls, locals, ret, stages, CkptVars, TrainerVars>>

\* the loader takes the result of worker t, which is ready for its next slice
ConcResume ==
    /\ \E t \in Threads :
         /\ threads[t].pc \in {"returned", "raised"}
         /\ threads' = [threads EXCEPT ![t] = IdleThread]
    /\ UNCHANGED <<self, pc, exc, args, caller_kspace, kspace_target, seed, masked_kspace,
                   mask, info, mask_calls, locals, ret, stages, CkptVars, TrainerVars>>

NextConc ==
    \/ Construct
    \/ ConcCall
    \/ ConcMask
    \/ ConcBody
    \/ ConcResume

SpecConc == Init /\ [][NextConc]_vars

\* ---------------------------------------------------------------- CheckpointManager
\* float('inf') and -float('inf'): beyond every metric of the model
Inf == MaxMetric + 1
NegInf == 0

\* the checkpoint names a caller passes to save: none (the default name) or a fixed name
NoName == ""
CkptNames == {NoName, "best"}

\* the decimal digits of n
RECURSIVE Digits(_)
Digits(n) == IF n < 10 THEN <<n>> ELSE Append(Digits(n \div 10), n % 10)

\* f'{n:03d}': the digits of n, padded with zeros to three places
Format03d(n) ==
    LET d == Digits(n)
    IN IF Len(d) >= 3 THEN d ELSE [i \in 1..(3 - Len(d)) |-> 0] \o d

\* ckpt_path / f'ckpt_{save_counter:03d}.tar'
DefaultPath(save_counter) == [stem |-> "ckpt_", digits |-> Format03d(save_counter)]

\* ckpt_path / (f'{ckpt_name}.tar' if ckpt_name else f'ckpt_{self.save_counter:03d}.tar')
SavePath(ckpt_name, save_counter) ==
    IF ckpt_name # NoName THEN [stem |-> ckpt_name, digits |-> <<>>]
    ELSE DefaultPath(save_counter)

\* a retention loop that spares the oldest file that is due
Unlinked_late(record_dict, save_counter, max_to_keep) ==
    IF save_counter > max_to_keep
    THEN {record_dict[count] :
            count \in {c \in DOMAIN record_dict : c < save_counter - max_to_keep}}
    ELSE {}

\* the paths the retention loop of _save visits and unlinks if they exist
Unlinked(record_dict, save_counter, max_to_keep) ==
    IF save_counter > max_to_keep
    THEN {record_dict[count] :
            count \in {c \in DOMAIN record_dict : c <= save_counter - max_to_keep}}
    ELSE {}

\* CheckpointManager._save: the manager and the directory after the call
DoSave(m, files, ckpt_name) ==
    LET save_counter == m.save_counter + 1
        save_path == SavePath(ckpt_name, save_counter)
        record_dict == save_counter :> save_path @@ m.record_dict
    IN [manager |-> [m EXCEPT !.save_counter = save_counter, !.record_dict = record_dict],
        disk |-> (files \cup {save_path}) \ Unlinked(record_dict, save_counter, m.max_to_keep),
        save_path |-> save_path]

\* a comparison that counts a metric equal to prev_best as an improvement
IsBest_or_equal(m, metric) ==
    IF m.mode = "min" THEN metric <= m.prev_best ELSE metric >= m.prev_best

\* metric < self.prev_best in mode 'min', metric > self.prev_best in mode 'max'
IsBest(m, metric) ==
    IF m.mode = "min" THEN metric < m.prev_best ELSE metric > m.prev_best

\* a manager that remembers the metric of the last call
NewPrevBest_last(m, metric, is_best) == metric

\* if is_best: self.prev_best = metric
NewPrevBest(m, metric, is_best) == IF is_best THEN metric ELSE m.prev_best

\* CheckpointManager.__init__ on a checkpoint directory that is empty or holds a file of
\* an earlier run
ManagerNew(mode, save_best_only, max_to_keep, stale) ==
    /\ manager' = [mode |-> mode, save_best_only |-> save_best_only,
                   max_to_keep |-> max_to_keep, save_counter |-> 0,
                   record_dict |-> <<>>,
                   prev_best |-> IF mode = "min" THEN Inf ELSE NegInf]
    /\ disk' = stale
    /\ written' = {}
    /\ save_ret' = None
    /\ save_log' = [last |-> <<>>, metrics |-> {}, written_metric |-> {}]

ManagerInit ==
    /\ manager = None
    /\ \E mode \in {"min", "max"}, save_best_only \in BOOLEAN, max_to_keep \in 0..MaxToKeep,
          stale \in {{}, {DefaultPath(2)}} :
         ManagerNew(mode, save_best_only, max_to_keep, stale)
    /\ UNCHANGED <<TransformVars, TrainerVars>>

\* CheckpointManager.save(metric, ckpt_name=ckpt_name): what the call does to the manager
\* and to the checkpoint directory
SaveCall(metric, ckpt_name) ==
    LET is_best == IsBest(manager, metric)
        saves == is_best \/ ~manager.save_best_only
        s == DoSave(manager, disk, ckpt_name)
        m1 == IF saves THEN s.manager ELSE manager
    IN /\ manager' = [m1 EXCEPT !.prev_best = NewPrevBest(manager, metric, is_best)]
       /\ save_log' = [last |-> <<[metric |-> metric, ckpt_name |-> ckpt_name]>>,
                       metrics |-> save_log.metrics \cup {metric},
                       written_metric |-> IF saves THEN {metric}
                                          ELSE save_log.written_metric]
       /\ disk' = IF saves THEN s.disk ELSE disk
       /\ written' = IF saves THEN written \cup {s.save_path} ELSE written
       /\ save_ret' = [save_path |-> IF saves THEN s.save_path ELSE None,
                       is_best |-> is_best]

\* a caller of CheckpointManager.save
Save ==
    /\ manager # None
    /\ manager.save_counter < MaxSaves
    /\ \E metric \in 1..MaxMetric, ckpt_name \in CkptNames : SaveCall(metric, ckpt_name)
    /\ UNCHANGED <<TransformVars, TrainerVars>>

NextCkpt ==
    \/ ManagerInit
    \/ Save

SpecCkpt == Init /\ [][NextCkpt]_vars

\* ---------------------------------------------------------------- model trainers
MaxEpochs == 2
MaxTrainLen == 2
MaxValLen == 3
MaxImages == 2

\* batch_size=1,  # This MUST be 1 for now.
batch_size == 1

TrainerClasses == {"ModelTrainerCI", "ModelTrainerK2CI"}

\* the losses a validation epoch returns: one better than the other
ValLosses == {1, 2}

\* what a caller passes as scheduler: nothing, a metric based scheduler, a scheduler
\* stepped without arguments, an object that is no scheduler
Schedulers == {"None", "ReduceLROnPlateau", "StepLR", "object"}

\* the keys of recons and targets that depend on the strategy of the transforms
OptionalReconKeys == {"rss_recons"}
OptionalTargetKeys == {"rss_targets", "semi_kspace_targets"}

\* Python's floor division of non-negative integers
FloorDiv(a, b) == a \div b

\* __init__: display interval of 0 means no display of validation images
display_interval(val_len, max_images) ==
    IF max_images <= 0 THEN 0 ELSE FloorDiv(val_len, max_images * batch_size)

\* if self.display_interval and (step % self.display_interval == 0)
Displays(t, s) == t.display_interval # 0 /\ s % t.display_interval = 0

\* the keys of targets that _get_slice_metrics reads
get_slice_metrics_reads(t, recons, targets) ==
    IF t.cls = "ModelTrainerCI" /\ "rss_recons" \in recons THEN {"rss_targets"} ELSE {}

\* the optional keys of targets that the image display of a validation step reads
visualize_images_reads(t, targets, e, s) ==
    IF t.cls = "ModelTrainerCI" /\ Displays(t, s) /\ e = 1
    THEN targets \cap {"rss_targets", "semi_kspace_targets"}
    ELSE {}

\* what one step does to the model and the optimizer, in order
TrainStepOps == <<"zero_grad", "forward", "backward", "step">>

\* a validation step that trains
ValStepOps_train == <<"zero_grad", "forward", "backward", "step">>

ValStepOps == <<"forward">>

\* the model and the optimizer after one operation
ApplyOp(n, op) ==
    CASE op = "zero_grad" -> [n EXCEPT !.grad = "zero"]
      [] op = "forward" -> n
      [] op = "backward" -> [n EXCEPT !.grad = "computed"]
      [] op = "step" -> [n EXCEPT !.params = IF n.grad = "computed" THEN @ + 1 ELSE @,
                                  !.opt_steps = @ + 1]

RECURSIVE ApplyOps(_, _)
ApplyOps(n, ops) == IF ops = <<>> THEN n ELSE ApplyOps(ApplyOp(n, Head(ops)), Tail(ops))

\* the parameters of the model and the state of the optimizer
Learned(n) == [params |-> n.params, opt_steps |-> n.opt_steps, grad |-> n.grad]

Event(op, e, metric) == [op |-> op, epoch |-> e, metric |-> metric]

\* a train_model that steps only metric based schedulers
StepsScheduler_metric_only(t) == t.scheduler = "ReduceLROnPlateau"

\* if self.scheduler is not None
StepsScheduler(t) == t.scheduler # "None"

\* ModelTrainerCI.__init__ / ModelTrainerK2CI.__init__
TrainerInit ==
    /\ tpc = "new"
    /\ manager = None
    /\ \E cls \in TrainerClasses, scheduler \in Schedulers, num_epochs \in 0..MaxEpochs,
          max_images \in -1..MaxImages, val_len \in 1..MaxValLen,
          train_len \in {MaxTrainLen}, use_slice_metrics \in BOOLEAN,
          save_best_only \in BOOLEAN,
          recons \in SUBSET OptionalReconKeys, targets \in SUBSET OptionalTargetKeys :
         IF scheduler = "object"
         THEN /\ tpc' = "init_raised"
              /\ UNCHANGED <<trainer, net, writer, train_locals, CkptVars>>
         ELSE /\ tpc' = "constructed"
              /\ trainer' = [cls |-> cls, scheduler |-> scheduler,
                             metric_scheduler |-> IF scheduler = "None" THEN <<>>
                                                  ELSE <<scheduler = "ReduceLROnPlateau">>,
                             num_epochs |-> num_epochs, max_images |-> max_images,
                             train_len |-> train_len, val_len |-> val_len,
                             display_interval |-> display_interval(val_len, max_images),
                             use_slice_metrics |-> use_slice_metrics,
                             recons |-> recons, targets |-> targets]
              /\ ManagerNew("min", save_best_only, MaxToKeep, {})
              /\ net' = [params |-> 0, opt_steps |-> 0, grad |-> "none",
                         training |-> TRUE, grad_enabled |-> TRUE]
              /\ writer' = [closed |-> FALSE, images |-> {}]
              /\ train_locals' = [ops |-> <<>>, val_start |-> None, val_epoch_loss |-> <<>>]
    /\ UNCHANGED <<epoch, step, events, TransformVars>>

\* train_model up to the loop over the epochs
TrainModel ==
    /\ tpc = "constructed"
    /\ tpc' = "loop"
    /\ epoch' = 0
    /\ UNCHANGED <<trainer, step, net, writer, events, train_locals, TransformVars, CkptVars>>

\* for epoch in range(1, self.num_epochs + 1), and _train_epoch up to its loop
EpochBegin ==
    /\ tpc = "loop"
    /\ epoch < trainer.num_epochs
    /\ epoch' = epoch + 1
    /\ step' = 0
    /\ net' = [net EXCEPT !.training = TRUE, !.grad_enabled = TRUE]
    /\ tpc' = "training"
    /\ UNCHANGED <<trainer, writer, events, train_locals, TransformVars, CkptVars>>

\* one pass of the loop of _train_epoch: _train_step, then the slice metrics
TrainStep ==
    /\ tpc = "training"
    /\ step < trainer.train_len
    /\ step' = step + 1
    /\ net' = ApplyOps(net, TrainStepOps)
    /\ train_locals' = [train_locals EXCEPT !.ops = TrainStepOps]
    /\ tpc' = IF /\ trainer.use_slice_metrics
                 /\ ~(get_slice_metrics_reads(trainer, trainer.recons, trainer.targets)
                        \subseteq trainer.targets)
              THEN "raised" ELSE "training"
    /\ UNCHANGED <<trainer, epoch, writer, events, TransformVars, CkptVars>>

\* the end of _train_epoch, and _val_epoch up to its loop
TrainEpochEnd ==
    /\ tpc = "training"
    /\ step = trainer.train_len
    /\ events' = Append(events, Event("train_epoch", epoch, <<>>))
    /\ net' = [net EXCEPT !.training = FALSE, !.grad_enabled = FALSE]
    /\ train_locals' = [train_locals EXCEPT !.val_start = Learned(net), !.ops = <<>>]
    /\ step' = 0
    /\ tpc' = "validating"
    /\ UNCHANGED <<trainer, epoch, writer, TransformVars, CkptVars>>

\* one pass of the loop of _val_epoch: _val_step, the slice metrics, the image display
ValStep ==
    /\ tpc = "validating"
    /\ step < FloorDiv(trainer.val_len, batch_size)
    /\ step' = step + 1
    /\ net' = ApplyOps(net, ValStepOps)
    /\ train_locals' = [train_locals EXCEPT !.ops = ValStepOps]
    /\ LET s == step + 1
           metrics_ok == \/ ~trainer.use_slice_metrics
                         \/ get_slice_metrics_reads(trainer, trainer.recons, trainer.targets)
                              \subseteq trainer.targets
           images_ok == visualize_images_reads(trainer, trainer.targets, epoch, s)
                          \subseteq trainer.targets
       IN /\ writer' = IF metrics_ok /\ Displays(trainer, s)
                       THEN [writer EXCEPT !.images = @ \cup {[epoch |-> epoch, step |-> s]}]
                       ELSE writer
          /\ tpc' = IF metrics_ok /\ images_ok THEN "validating" ELSE "raised"
    /\ UNCHANGED <<trainer, epoch, events, TransformVars, CkptVars>>

\* the end of _val_epoch: the loss of the epoch
ValEpochEnd ==
    /\ tpc = "validating"
    /\ step = FloorDiv(trainer.val_len, batch_size)
    /\ \E val_epoch_loss \in ValLosses :
         /\ train_locals' = [train_locals EXCEPT !.val_epoch_loss = <<val_epoch_loss>>]
         /\ events' = Append(events, Event("val_epoch", epoch, <<val_epoch_loss>>))
    /\ tpc' = "save"
    /\ UNCHANGED <<trainer, epoch, step, net, writer, TransformVars, CkptVars>>

\* self.manager.save(metric=val_epoch_loss, verbose=True)
TrainerSave ==
    /\ tpc = "save"
    /\ SaveCall(train_locals.val_epoch_loss[1], NoName)
    /\ events' = Append(events, Event("save", epoch, train_locals.val_epoch_loss))
    /\ tpc' = "schedule"
    /\ UNCHANGED <<trainer, epoch, step, net, writer, train_locals, TransformVars>>

\* if self.scheduler is not None: self.scheduler.step(metrics=val_epoch_loss) or
\* self.scheduler.step()
SchedulerStep ==
    /\ tpc = "schedule"
    /\ events' = IF StepsScheduler(trainer)
                 THEN Append(events,
                             Event("scheduler_step", epoch,
                                   IF trainer.metric_scheduler[1] THEN train_locals.val_epoch_loss
                                   ELSE <<>>))
                 ELSE events
    /\ tpc' = "loop"
    /\ UNCHANGED <<trainer, epoch, step, net, writer, train_locals, TransformVars, CkptVars>>

\* self.writer.close() after the loop
CloseWriter ==
    /\ tpc = "loop"
    /\ epoch >= trainer.num_epochs
    /\ writer' = [writer EXCEPT !.closed = TRUE]
    /\ events' = Append(events, Event("close", epoch, <<>>))
    /\ tpc' = "done"
    /\ UNCHANGED <<trainer, epoch, step, net, train_locals, TransformVars, CkptVars>>

NextTrain ==
    \/ TrainerInit
    \/ TrainModel
    \/ EpochBegin
    \/ TrainStep
    \/ TrainEpochEnd
    \/ ValStep
    \/ ValEpochEnd
    \/ TrainerSave
    \/ SchedulerStep
    \/ CloseWriter

SpecTrain == Init /\ [][NextTrain]_vars

\* ---------------------------------------------------------------- properties
Returned == pc = "returned"
Cls == self.cls
ScaleClasses == {"PreProcessWK", "PreProcessWSK", "PreProcessCMG", "PreProcessCMGIMG",
                 "PreProcessWSemiKCC"}
PadClasses == {"PreProcessWK", "PreProcessWSK"}

\* the key under which each class records its scale factor in extra_params
ScaleKey(cls) ==
    IF cls = "PreProcessWK" THEN "k_scales"
    ELSE IF cls \in {"PreProcessWSK", "PreProcessWSemiKCC"} THEN "sk_scales"
    ELSE IF cls = "PreProcessIMG" THEN "img_scales"
    ELSE "cmg_scales"

RecordedScale == ret.extra_params[ScaleKey(Cls)]

\* t is a representation of the caller's slice divided by s exactly once
DividedOnceBy(t, s) == t.scales = Append(args.kspace_target.scales, s)

\* C1: in the strategies that normalise by a scale factor, the returned input,
\* kspace_targets, cmg_targets and img_targets are the k-space, complex-image and
\* magnitude-image representations divided exactly once by the scale factor the
\* call recorded in extra_params.
C1_ScaledOnce ==
    (Returned /\ Cls \in ScaleClasses) =>
        /\ DividedOnceBy(ret.inputs, RecordedScale)
        /\ DividedOnceBy(ret.targets.kspace_targets, RecordedScale)
        /\ DividedOnceBy(ret.targets.cmg_targets, RecordedScale)
        /\ DividedOnceBy(ret.targets.img_targets, RecordedScale)
        /\ ret.targets.kspace_targets.hdom = 0 /\ ret.targets.kspace_targets.wdom = 0
        /\ ret.targets.cmg_targets.hdom = 1 /\ ret.targets.cmg_targets.wdom = 1
        /\ ret.targets.cmg_targets.layout = "complex"
        /\ ret.targets.img_targets.hdom = 1 /\ ret.targets.img_targets.wdom = 1
        /\ ret.targets.img_targets.layout = "real"

C1_Witness ==
    /\ Returned
    /\ Cls = "PreProcessCMGIMG"
    /\ self.crop_center
    /\ Len(ret.targets.kspace_targets.scales) = 1

\* C2: whenever rss_targets is in the targets bundle, it is the reference image divided
\* by the scale factor the call applied to the other targets.
C2_RssRescaled ==
    (Returned /\ "rss_targets" \in DOMAIN ret.targets) =>
        ret.targets.rss_targets.scales = <<RecordedScale>>

\* C3: rss_targets is present for every 15-coil input and absent for every single-coil
\* input, whatever the challenge string of the instance.
C3_RssPresence ==
    Returned =>
        /\ args.kspace_target.coils = 15 => "rss_targets" \in DOMAIN ret.targets
        /\ args.kspace_target.coils = 1 => "rss_targets" \notin DOMAIN ret.targets

\* C4 as stated: every strategy returns kspace_targets, cmg_targets and img_targets.
C4_AllThreeTargets ==
    Returned => {"kspace_targets", "cmg_targets", "img_targets"} \subseteq DOMAIN ret.targets

\* C4 amended: every strategy but PreProcessIMG returns kspace_targets, cmg_targets and
\* img_targets; PreProcessIMG returns img_targets and neither of the other two.
C4_CoreTargets ==
    Returned =>
        IF Cls = "PreProcessIMG"
        THEN {"kspace_targets", "cmg_targets", "img_targets"} \cap DOMAIN ret.targets
                 = {"img_targets"}
        ELSE {"kspace_targets", "cmg_targets", "img_targets"} \subseteq DOMAIN ret.targets

C4_Witness ==
    /\ Returned
    /\ Cls = "PreProcessIMG"
    /\ "img_inputs" \in DOMAIN ret.targets

\* C5: when the call returns, the tensor the caller passed holds the values it held
\* before the call.
C5_CallerTensorUnchanged ==
    Returned => caller_kspace = args.kspace_target

\* C6: with use_seed the seed passed to the mask function is the tuple of the character
\* codes of file_name, so equal file names give equal seeds and different file names
\* different seeds; without use_seed the seed is None.
C6_SeedFromFileName ==
    /\ \A c \in mask_calls :
         IF self.use_seed
         THEN /\ c.seed.kind = "tuple"
              /\ Len(c.seed.val) = Len(c.file_name)
              /\ \A i \in 1..Len(c.file_name) : c.seed.val[i] = ord(c.file_name[i])
         ELSE c.seed = None
    /\ \A c1, c2 \in mask_calls :
         self.use_seed => ((c1.file_name = c2.file_name) <=> (c1.seed = c2.seed))

C6_Witness ==
    /\ pc = "masked"
    /\ self.use_seed
    /\ args.slice_num = 1
    /\ \A f \in FileNames : \E c \in mask_calls : c.file_name = f

InCall == pc \in {"validated", "masked", "returned", "raised"}

\* C7: a call passes validation exactly when the tensor has rank 3, 4 or 5 and batch
\* axis 1 after normalisation; any other rank raises the shape error, a rank-5 tensor
\* with another batch size raises NotImplementedError, and in both cases no mask is
\* generated and nothing is returned.
C7_Validation ==
    InCall =>
        LET k == args.kspace_target
            rank_ok == k.rank \in {3, 4, 5}
            batch_ok == k.rank \in {3, 4} \/ k.batch = 1
        IN /\ (~rank_ok) <=> (pc = "raised" /\ exc = "RuntimeError")
           /\ (rank_ok /\ ~batch_ok) <=> (pc = "raised" /\ exc = "NotImplementedError")
           /\ (rank_ok /\ batch_ok) =>
                  /\ kspace_target.rank = 5
                  /\ kspace_target.batch = 1
                  /\ kspace_target.coils = k.coils
           /\ (pc = "raised" /\ exc \in {"RuntimeError", "NotImplementedError"}) =>
                  /\ mask = None
                  /\ seed = None
                  /\ masked_kspace = None
                  /\ ret = None

C7_Witness ==
    /\ pc = "raised"
    /\ exc = "NotImplementedError"
    /\ args.kspace_target.batch = 2

\* C8: the width of the input PreProcessWK and PreProcessWSK return is divisible by the
\* divisor.
C8_WidthDivisible ==
    (Returned /\ Cls \in PadClasses) => ret.inputs.w % self.divisor = 0

C8_Witness ==
    /\ Returned
    /\ Cls = "PreProcessWK"
    /\ args.kspace_target.w % self.divisor # 0
    /\ ret.inputs.w > args.kspace_target.w

\* C9: when the width is already a multiple of the divisor, no column is added on either
\* side and the returned input is the unpadded tensor.
C9_NoPadWhenDivisible ==
    (Returned /\ Cls \in PadClasses /\ locals.unpadded.w % self.divisor = 0) =>
        /\ locals.pad = <<0, 0>>
        /\ ret.inputs.w = locals.unpadded.w
        /\ ret.inputs = locals.unpadded

C9_Witness ==
    /\ Returned
    /\ Cls = "PreProcessWSK"
    /\ self.divisor > 1
    /\ locals.unpadded.w % self.divisor = 0

\* C10: of the p zero columns added, floor(p / 2) are on the left and ceil(p / 2) on the
\* right, so the right pad is the left pad or one more, one more exactly when p is odd.
C10_PadSplit ==
    (Returned /\ Cls \in PadClasses) =>
        LET p == ret.inputs.w - locals.unpadded.w
            left == ret.inputs.pad[1]
            right == ret.inputs.pad[2]
        IN /\ left + right = p
           /\ left = p \div 2
           /\ right = (p + 1) \div 2
           /\ right >= left
           /\ (right = left + 1) <=> (p % 2 = 1)

C10_Witness ==
    /\ Returned
    /\ Cls = "PreProcessWSK"
    /\ ret.inputs.pad[2] = ret.inputs.pad[1] + 1
    /\ ret.inputs.pad[1] >= 1

\* ---------------------------------------------------------------- stage order
\* the position of a stage in the order Validate, Mask, Transform-Domain, Weight,
\* Normalize-Scale, Crop, Augment, Pad, Assemble
StageRank(s) ==
    CASE s = "Validate" -> 1
      [] s = "Mask" -> 2
      [] s = "Transform-Domain" -> 3
      [] s = "Weight" -> 4
      [] s = "Normalize-Scale" -> 5
      [] s = "Crop" -> 6
      [] s = "Augment" -> 7
      [] s = "Pad" -> 8
      [] s = "Assemble" -> 9

\* the positions of the executed stages at which stage s ran
StageIdx(s) == {i \in 1..Len(stages) : stages[i] = s}

\* every position of stage s is before every position of stage t
AllBefore(s, t) == \A i \in StageIdx(s), j \in StageIdx(t) : i < j

\* the first position of stage s is before the first position of stage t
FirstBefore(s, t) ==
    \E i \in StageIdx(s) : \A j \in StageIdx(t) : i < j

CropsFirst == Cls \in {"PreProcessCMG", "PreProcessCMGIMG", "PreProcessIMG"} /\ self.crop_center

\* C11 (as stated): within every call the stages run in the order Validate, Mask,
\* Transform-Domain, Weight, Normalize-Scale, Crop, Augment, Pad, Assemble, and no stage
\* runs after a later stage has started
C11_StageOrder ==
    \A i, j \in 1..Len(stages) : i < j => StageRank(stages[i]) <= StageRank(stages[j])

\* C11 (amended): Validate runs first and Mask second, once each; every weighting
\* precedes the computation of the scale factor; Transform-Domain, Normalize-Scale and
\* Crop steps interleave (input first, targets after), and where the strategy crops, the
\* first crop precedes the computation of the scale factor, which is taken over the cropped
\* tensor; augmentation follows every scaling and every crop; the targets bundle is
\* assembled once, after all of these; the pad of PreProcessWK and PreProcessWSK is the
\* last stage, after the targets bundle is assembled
C11_StagePartialOrder ==
    /\ Len(stages) >= 1 => stages[1] = "Validate"
    /\ Len(stages) >= 2 => stages[2] = "Mask"
    /\ StageIdx("Validate") \subseteq {1}
    /\ StageIdx("Mask") \subseteq {2}
    /\ AllBefore("Weight", "Normalize-Scale")
    /\ AllBefore("Normalize-Scale", "Augment")
    /\ AllBefore("Crop", "Augment")
    /\ \A s \in {"Transform-Domain", "Weight", "Normalize-Scale", "Crop", "Augment"} :
         AllBefore(s, "Assemble")
    /\ Cardinality(StageIdx("Assemble")) <= 1
    /\ AllBefore("Assemble", "Pad")
    /\ StageIdx("Pad") \subseteq {Len(stages)}
    /\ Returned =>
         /\ StageIdx("Assemble") # {}
         /\ (StageIdx("Pad") # {}) = (Cls \in PadClasses)
         /\ (CropsFirst \/ Cls = "PreProcessWSemiKCC") =>
              /\ FirstBefore("Crop", "Normalize-Scale")
              /\ locals.scale.std_of.cropped

\* a cropping, augmenting PreProcessCMG call has returned
C11_Witness ==
    /\ Returned
    /\ Cls = "PreProcessCMG"
    /\ self.crop_center
    /\ self.augment_data
    /\ StageIdx("Crop") # {}
    /\ StageIdx("Augment") # {}

\* ---------------------------------------------------------------- flips, crops and scales
\* the strategies that return a complex-image target and may flip it
ComplexAugmentClasses == {"PreProcessCMG", "PreProcessCMGIMG"}

\* the call drew at least one flip
FlipDrawn == locals.flip_lr \/ locals.flip_ud

\* C12: in PreProcessCMG and PreProcessCMGIMG, whenever a flip is applied, the returned
\* kspace_targets is the forward 2D Fourier transform of the flipped cmg_targets: its
\* inverse 2D transform is cmg_targets and the magnitude of that is img_targets
C12_KspaceRegenerated ==
    (Returned /\ Cls \in ComplexAugmentClasses /\ FlipDrawn) =>
        LET t == ret.targets
        IN /\ t.cmg_targets.flip_lr = locals.flip_lr
           /\ t.cmg_targets.flip_ud = locals.flip_ud
           /\ t.kspace_targets = fft2(t.cmg_targets)
           /\ ifft2(t.kspace_targets) = t.cmg_targets
           /\ complex_abs(ifft2(t.kspace_targets)) = t.img_targets

\* a cropping PreProcessCMGIMG call that drew the left-right flip only has returned
C12_Witness ==
    /\ Returned
    /\ Cls = "PreProcessCMGIMG"
    /\ self.crop_center
    /\ locals.flip_lr
    /\ ~locals.flip_ud
    /\ ret.targets.kspace_targets.flip_lr

\* the call cropped its image-domain representations
CropConfigured == CropsFirst \/ Cls = "PreProcessWSemiKCC"

\* the call computed kspace_targets anew from the complex-image target
KspaceRegenerated ==
    \/ Cls = "PreProcessWSemiKCC"
    \/ Cls = "PreProcessCMG" /\ self.augment_data
    \/ Cls = "PreProcessCMGIMG" /\ self.augment_data /\ FlipDrawn

\* t has the height and width of the k-space given to the call
FullSize(t) == t.h = args.kspace_target.h /\ t.w = args.kspace_target.w

\* t has the configured square resolution
CroppedSize(t) == t.cropped /\ t.h = self.resolution /\ t.w = self.resolution

\* C13 (as stated): in every strategy and configuration the returned kspace_targets has
\* the full height and width of the k-space given to the call
C13_KspaceFullSize ==
    (Returned /\ "kspace_targets" \in DOMAIN ret.targets) =>
        FullSize(ret.targets.kspace_targets)

\* C13 (amended): the crop is applied to image-domain tensors only; the complex-image and
\* magnitude-image targets have the cropped resolution exactly when the strategy crops;
\* kspace_targets has the full height and width of the given k-space unless the strategy
\* crops and computes kspace_targets anew as the Fourier transform of the cropped
\* complex-image target (PreProcessWSemiKCC always, PreProcessCMG with augment_data,
\* PreProcessCMGIMG when a flip is drawn): then it has the cropped resolution
C13_CropImageDomain ==
    Returned =>
        LET t == ret.targets
        IN /\ \A k \in (DOMAIN t) \cap {"cmg_targets", "img_targets"} :
                IF CropConfigured THEN CroppedSize(t[k])
                ELSE ~t[k].cropped /\ FullSize(t[k])
           /\ "kspace_targets" \in DOMAIN t =>
                IF CropConfigured /\ KspaceRegenerated
                THEN /\ t.kspace_targets = fft2(t.cmg_targets)
                     /\ CroppedSize(t.kspace_targets)
                ELSE /\ ~t.kspace_targets.cropped
                     /\ FullSize(t.kspace_targets)

\* a cropping, augmenting PreProcessCMG call on a slice wider than the resolution returned
C13_Witness ==
    /\ Returned
    /\ Cls = "PreProcessCMG"
    /\ self.crop_center
    /\ self.augment_data
    /\ args.kspace_target.w > self.resolution
    /\ ret.targets.kspace_targets.w = self.resolution

\* the entries of a targets bundle that are derived from the k-space of the slice
DerivedKeys == {"kspace_targets", "cmg_targets", "img_targets", "semi_kspace_targets",
                "img_inputs", "cmg_inputs", "semi_kspace_acss"}

\* C14 (as stated): every entry of the returned targets bundle that is derived from the
\* k-space of the slice, img_inputs and semi_kspace_acss included, is its unnormalized
\* representation divided once by the scale factor recorded in extra_params
C14_AuxiliarySameScale ==
    Returned =>
        \A k \in (DOMAIN ret.targets) \cap DerivedKeys :
            DividedOnceBy(ret.targets[k], RecordedScale)

\* the image-domain entries of the returned tuple: the network input and every target
\* but kspace_targets
ImageDomainEntries ==
    {ret.inputs} \cup {ret.targets[k] : k \in (DOMAIN ret.targets) \ {"kspace_targets"}}

\* C15: in PreProcessCMG, PreProcessCMGIMG and PreProcessIMG the two flip decisions of a
\* call are applied, each along its own spatial axis, to every image-domain
\* representation of that call (network input, cmg_targets / img_targets, img_inputs,
\* rss target): none is left unflipped or flipped along another axis; without
\* augment_data nothing is flipped
C15_FlipsConsistent ==
    (Returned /\ HasAugment(Cls)) =>
        /\ \A e \in ImageDomainEntries :
             /\ e.flip_lr = locals.flip_lr
             /\ e.flip_ud = locals.flip_ud
        /\ ~self.augment_data => ~FlipDrawn

\* a PreProcessCMG call with an rss target drew the left-right flip but not the up-down one
C15_Witness ==
    /\ Returned
    /\ Cls = "PreProcessCMG"
    /\ self.augment_data
    /\ "rss_targets" \in DOMAIN ret.targets
    /\ locals.flip_lr
    /\ ~locals.flip_ud
    /\ ret.targets.rss_targets.flip_lr
    /\ ~ret.inputs.flip_ud

\* ---------------------------------------------------------------- extra_params
\* C18 (as stated): after a successful PreProcessWK or PreProcessWSK call, whatever the
\* attrs mapping and the mask info bundle, extra_params holds the mask, the scale factor
\* and the weighting applied in that call under 'masks', 'k_scales' / 'sk_scales' and
\* 'weightings', and every key of the mask info and of attrs is present
C18_ExtraParamsFaithful ==
    (Returned /\ Cls \in {"PreProcessWK", "PreProcessWSK"}) =>
        /\ ret.extra_params.masks = mask
        /\ ret.extra_params[ScaleKey(Cls)] = locals.scale
        /\ ret.extra_params.weightings = locals.weighting
        /\ (DOMAIN info) \cup (DOMAIN args.attrs) \subseteq DOMAIN ret.extra_params

\* ---------------------------------------------------------------- odd widths
\* C17 (as stated): a call that receives k-space of odd width fails before any mask is
\* generated, so a call that passed validation, was masked or returned has an even width
C17_OddWidthRejected ==
    (pc \in {"validated", "masked", "returned"}) => args.kspace_target.w % 2 = 0

\* ---------------------------------------------------------------- construction
\* the challenge string an instance stores
ChallengeOf(slf) ==
    IF slf.cls \in SliceClasses THEN slf.which_challenge ELSE slf.challenge

\* the parameters the instance was constructed with are valid: a known challenge and
\* functions that can be called (SubmitSliceTransform may be given no mask function)
ValidParameters(slf) ==
    /\ ChallengeOf(slf) \in {"singlecoil", "multicoil"}
    /\ \/ slf.mask_func = "mask_func"
       \/ slf.cls = "SubmitSliceTransform" /\ slf.mask_func = NoMaskFunc
    /\ HasWeight(slf.cls) => slf.weight_func = "weight_func"

\* C19 (as stated): constructing a transform with an invalid challenge string or with a
\* mask / weight function that cannot be called fails at construction, so every instance
\* that exists has valid parameters and no call fails because of a parameter
C19_InvalidFailsAtConstruction ==
    /\ pc \notin {"new", "construct_failed"} => ValidParameters(self)
    /\ exc # "TypeError: object is not callable"

\* ---------------------------------------------------------------- shared instance
\* C16: no step of any call writes an attribute of the instance: under every interleaving
\* of the concurrent calls the instance keeps the attributes it was constructed with, and
\* a step of one call changes the locals of that call only
C16_InstanceReadOnly ==
    [][/\ pc # "new" => self' = self
       /\ \A t1, t2 \in Threads :
            (t1 # t2 /\ threads'[t1] # threads[t1]) => threads'[t2] = threads[t2]]_vars

\* two calls on different slices are in flight on the shared instance at different steps
C16_Witness ==
    /\ threads[1].pc = "masked"
    /\ threads[2].pc = "returned"
    /\ threads[1].args.slice_num # threads[2].args.slice_num
    /\ mask_calls # {}

\* ---------------------------------------------------------------- checkpoint retention
\* every checkpoint of this manager was saved under its default name
DefaultNamesOnly ==
    \A c \in DOMAIN manager.record_dict : manager.record_dict[c] = DefaultPath(c)

\* the checkpoint files written by this manager that still exist
Kept == written \cap disk

MinOf(a, b) == IF a < b THEN a ELSE b

\* C20: after any sequence of save calls with default names, the files written by this
\* manager that still exist are exactly the min(max_to_keep, save_counter) most recently
\* written ones, never more than max_to_keep
C20_Retention ==
    (manager # None /\ DefaultNamesOnly) =>
        LET n == manager.save_counter
            k == MinOf(manager.max_to_keep, n)
        IN /\ Kept = {DefaultPath(c) : c \in (n - k + 1)..n}
           /\ Cardinality(Kept) = k
           /\ Cardinality(Kept) <= manager.max_to_keep
           /\ Cardinality(written) = n

\* more checkpoints were saved under default names than are kept: the oldest are gone
C20_Witness ==
    /\ manager # None
    /\ DefaultNamesOnly
    /\ manager.max_to_keep >= 1
    /\ manager.save_counter >= manager.max_to_keep + 2
    /\ Cardinality(written \ disk) >= 2

\* ---------------------------------------------------------------- slice transform padding
\* the smallest multiple of d that is not below w
SmallestMultiple(w, d) == ((w + d - 1) \div d) * d

\* C22 (as stated): the data tensor a slice transform returns has the smallest width that
\* is a multiple of the divisor and not below the width of the k-space, so a width that
\* is divisible already comes back unpadded
C22_SlicePadToMultiple ==
    pc = "slice_returned" =>
        ret.data.w = SmallestMultiple(args.kspace.w, self.divisor)

\* ---------------------------------------------------------------- ACS mask
\* the 0-based columns at which the ACS mask of the call is one
AcsColumns(m) == {i - 1 : i \in {j \in DOMAIN m : m[j]}}

\* m is a mask over n columns with exactly num_low_freqs ones, in one block that starts
\* at column (n - num_low_freqs + 1) // 2 and lies inside [0, n)
AcsBlock(m, n, num_low_freqs) ==
    LET start == (n - num_low_freqs + 1) \div 2
    IN /\ Len(m) = n
       /\ AcsColumns(m) = start..(start + num_low_freqs - 1)
       /\ Cardinality(AcsColumns(m)) = num_low_freqs
       /\ AcsColumns(m) \subseteq 0..(n - 1)

\* C29: for n columns and 0 <= num_low_freqs <= n, find_acs_mask has exactly num_low_freqs
\* ones, in one contiguous block that starts at column (n - num_low_freqs + 1) // 2 and
\* lies inside [0, n), and zeros elsewhere; the ACS-only target is made of the unmasked
\* k-space restricted to exactly those columns
C29_AcsMaskBlock ==
    /\ (pc = "masked" /\ Cls = "PreProcessWSemiKCC") =>
         AcsBlock(find_acs_mask(kspace_target, info.num_low_frequency),
                  kspace_target.w, info.num_low_frequency)
    /\ (Returned /\ Cls = "PreProcessWSemiKCC") =>
         /\ AcsBlock(locals.acs_mask, args.kspace_target.w, info.num_low_frequency)
         /\ ret.targets.semi_kspace_acss.acs = locals.acs_mask
         /\ ~ret.targets.semi_kspace_acss.masked

\* a call whose ACS block is neither empty nor the whole width, with an odd margin
C29_Witness ==
    /\ Returned
    /\ Cls = "PreProcessWSemiKCC"
    /\ args.kspace_target.w = 3
    /\ info.num_low_frequency = 2
    /\ AcsColumns(locals.acs_mask) = {1, 2}

\* ---------------------------------------------------------------- k-space target shape
\* C30 (as stated): in PreProcessCMG and PreProcessCMGIMG with crop_center and
\* augment_data on, kspace_targets has the same height and width whichever flips are
\* drawn, and its inverse 2D transform has the shape of cmg_targets: with the crop on,
\* that shape is the configured resolution in all four outcomes
C30_KspaceShapeStable ==
    (Returned /\ Cls \in ComplexAugmentClasses /\ self.crop_center /\ self.augment_data) =>
        LET t == ret.targets
        IN /\ ifft2(t.kspace_targets).h = t.cmg_targets.h
           /\ ifft2(t.kspace_targets).w = t.cmg_targets.w
           /\ t.kspace_targets.h = self.resolution
           /\ t.kspace_targets.w = self.resolution

\* ---------------------------------------------------------------- checkpoint saves
\* the metric and the checkpoint name of the last save
LastSave == save_log.last[1]

\* the metric strictly improves on the best so far of manager m
Improves(m, metric) ==
    \/ m.mode = "min" /\ metric < m.prev_best
    \/ m.mode = "max" /\ metric > m.prev_best

\* C23: save(metric) writes a checkpoint exactly when save_best_only is false or the
\* metric strictly improves on prev_best; it returns (save_path, is_best) with save_path
\* None exactly when nothing was written and is_best true exactly when the metric strictly
\* improved; an equal metric is no improvement
C23_SaveWhenBetter ==
    [][(manager # None /\ manager' # None) =>
         LET metric == LastSave'.metric
             improved == Improves(manager, metric)
             wrote == manager'.save_counter = manager.save_counter + 1
         IN /\ wrote = (improved \/ ~manager.save_best_only)
            /\ ~wrote => (manager'.save_counter = manager.save_counter
                          /\ disk' = disk /\ written' = written)
            /\ wrote => (save_ret'.save_path
                           = SavePath(LastSave'.ckpt_name, manager'.save_counter)
                         /\ save_ret'.save_path \in written')
            /\ (save_ret'.save_path = None) = ~wrote
            /\ save_ret'.is_best = improved
            /\ metric = manager.prev_best => ~save_ret'.is_best]_vars

\* a save with save_best_only whose metric equals prev_best wrote nothing
C23_Witness ==
    /\ manager # None
    /\ manager.save_best_only
    /\ save_ret # None
    /\ LastSave.metric = manager.prev_best
    /\ ~save_ret.is_best
    /\ save_ret.save_path = None
    /\ manager.save_counter >= 1

\* the best of the metrics passed to save so far: the smallest in mode 'min', the largest
\* in mode 'max'
BestOf(metrics, mode) ==
    CHOOSE b \in metrics : \A x \in metrics : IF mode = "min" THEN b <= x ELSE b >= x

\* C24: after any sequence of save calls prev_best is the best metric passed to save so
\* far (the infinity of __init__ before the first call), and with save_best_only the
\* most recently written checkpoint is the one saved with metric prev_best
C24_PrevBestIsBest ==
    manager # None =>
        /\ IF save_log.metrics = {}
           THEN manager.prev_best = (IF manager.mode = "min" THEN Inf ELSE NegInf)
           ELSE manager.prev_best = BestOf(save_log.metrics, manager.mode)
        /\ (manager.save_best_only /\ save_log.written_metric # {}) =>
             save_log.written_metric = {manager.prev_best}
        /\ (save_log.written_metric = {}) = (manager.save_counter = 0)

\* with save_best_only, a later save with a worse metric left prev_best and the last
\* written checkpoint as they were
C24_Witness ==
    /\ manager # None
    /\ manager.save_best_only
    /\ Cardinality(save_log.metrics) >= 2
    /\ LastSave.metric # manager.prev_best
    /\ save_log.written_metric = {manager.prev_best}

\* C25 (as stated): with max_to_keep >= 1, whatever checkpoint names are passed, the file
\* at the save_path that save returned exists when the call returns
C25_JustWrittenExists ==
    (manager # None /\ manager.max_to_keep >= 1 /\ save_ret # None
       /\ save_ret.save_path # None) =>
        save_ret.save_path \in disk

\* ---------------------------------------------------------------- properties of the trainers
\* C21 (as stated): whatever optional keys recons and targets hold, no step of
\* ModelTrainerCI ends in a missing-key failure of _get_slice_metrics or _visualize_images.
C21_OptionalKeysGuarded == tpc = "raised" => trainer.cls # "ModelTrainerCI"

\* what train_model does in one epoch, in order
EpochOps == IF trainer.scheduler # "None"
            THEN <<"train_epoch", "val_epoch", "save", "scheduler_step">>
            ELSE <<"train_epoch", "val_epoch", "save">>

\* C26: train_model runs the epochs 1..num_epochs in increasing order; each epoch is the
\* training epoch, the validation epoch, one save with the loss of that validation epoch
\* and, if a scheduler is set, one scheduler step, in this order; the writer is closed only
\* after the scheduler step of the last epoch.
C26_EpochOrder ==
    tpc \notin {"new", "init_raised"} =>
        LET k == Len(EpochOps)
        IN /\ \A i \in 1..Len(events) :
                IF events[i].op = "close"
                THEN i = Len(events) /\ i = trainer.num_epochs * k + 1
                ELSE /\ events[i].op = EpochOps[((i - 1) % k) + 1]
                     /\ events[i].epoch = ((i - 1) \div k) + 1
                     /\ events[i].epoch <= trainer.num_epochs
                     /\ events[i].op = "save" =>
                            /\ events[i - 1].op = "val_epoch"
                            /\ events[i].metric = events[i - 1].metric
           /\ tpc = "schedule" =>
                /\ events[Len(events)].op = "save"
                /\ save_log.last[1].metric = events[Len(events)].metric[1]
           /\ ~manager.save_best_only =>
                manager.save_counter
                    = Cardinality({i \in 1..Len(events) : events[i].op = "save"})
           /\ writer.closed <=> tpc = "done"
           /\ tpc = "done" => Len(events) = trainer.num_epochs * k + 1

C26_Witness ==
    /\ tpc = "done"
    /\ trainer.num_epochs >= 2
    /\ trainer.scheduler = "StepLR"
    /\ events[Len(events) - 1].op = "scheduler_step"

\* C27: a validation epoch performs no zero_grad, no backward pass and no optimizer step,
\* and the parameters of the model and the state of the optimizer at its end are those at
\* its start; every training step performs zero_grad, forward, backward and optimizer step
\* once each, in this order.
C27_ValidationLeavesModel ==
    /\ tpc \in {"validating", "save"} =>
         /\ Learned(net) = train_locals.val_start
         /\ step > 0 =>
              \A i \in 1..Len(train_locals.ops) :
                 train_locals.ops[i] \notin {"zero_grad", "backward", "step"}
    /\ (tpc = "training" /\ step > 0) =>
         /\ train_locals.ops = <<"zero_grad", "forward", "backward", "step">>
         /\ net.params = (epoch - 1) * trainer.train_len + step
         /\ net.opt_steps = (epoch - 1) * trainer.train_len + step

C27_Witness ==
    /\ tpc = "save"
    /\ epoch >= 2
    /\ step >= 2
    /\ net.params = epoch * trainer.train_len
    /\ train_locals.ops = <<"forward">>

\* C28 (as stated): with batch size 1, the validation steps of one epoch that write images
\* are at most max_images for max_images > 0, and none for max_images <= 0.
C28_ImagesAtMostMaxImages ==
    tpc \notin {"new", "init_raised"} =>
        \A e \in 1..MaxEpochs :
            Cardinality({i \in writer.images : i.epoch = e})
                <= (IF trainer.max_images > 0 THEN trainer.max_images ELSE 0)

====
